---- MODULE Spec2Model ----
(***************************************************************************)
(* Verification development for leadbot.py: the browser replay engine      *)
(* (replay_workflow_single_row driven by _run_partial_thread, and          *)
(* replay_workflow) and the step-by-step VerificationDialog.               *)
(***************************************************************************)
EXTENDS Integers, Sequences, FiniteSets, TLC

(***************************************************************************)
(* Bounds of the model.                                                    *)
(***************************************************************************)
NumRows == 2        \* rows of the CSV file (len(df))
MaxWorkers == 2     \* partial-run worker threads that can be started
MaxRowCount == 2    \* largest row_count the operator enters
MaxInterventions == 1   \* entry edits, inserts, deletions and moves back
                        \* during one verification session
MaxStream == 3      \* actions appended to actions_log during one recording

VARIABLES
    workflowFile,   \* configs/<site>_workflow.json
    statusFile,     \* configs/<site>_processing_status.json
    workers,        \* the _run_partial_thread threads
    full,           \* the replay_workflow call of "Run Workflow (Browser)"
    partialFile,    \* configs/<site>_verified_partial.json
    dlg,            \* the VerificationDialog object
    lastOp,         \* history: the handler of the dialog that ran last
    editor,         \* the WorkflowEditorDialog object
    actions_log,    \* LeadAutomationApp.actions_log
    recorder,       \* the recording loop of on_detect_fields
    resolution      \* one evaluation of the value resolution of a field step

replayVars == <<statusFile, workers, full>>

verifyVars == <<partialFile, dlg, lastOp>>

appVars == <<editor, actions_log, recorder, resolution>>

vars == <<workflowFile, replayVars, verifyVars, appVars>>

(***************************************************************************)
(* Actions of a workflow.  Every action is a record of the same shape; id  *)
(* is the identity of the dict object, the other fields are its keys.      *)
(***************************************************************************)
MkAction(id, kind, selector, value) ==
    [id |-> id, action |-> kind, selector |-> selector, value |-> value,
     step_name |-> "", url |-> IF kind = "navigate" THEN "http://site" ELSE "",
     sub |-> <<>>, original_action |-> ""]

MkSequence(id, subs) ==
    [MkAction(id, "interactive_sequence", "", "") EXCEPT !.sub = subs]

\* The five-step workflow of the loop-slicing example, a second one with a
\* keyboard step, and a third one whose second step has lost its selector
\* (the step run_partial_workflow reports as "invalid step - missing selector").
WorkflowA ==
    << MkAction("A", "navigate", "", ""),
       MkAction("B", "input", "#name", "rec"),
       MkAction("C", "click", "#go", ""),
       MkAction("D", "select", "#state", "rec"),
       MkSequence("E", <<"keyboard", "click">>) >>

WorkflowB ==
    << MkAction("A", "keyboard", "", ""),
       MkAction("B", "click", "#next", ""),
       MkAction("C", "input", "#name", "rec") >>

WorkflowC ==
    << MkAction("A", "navigate", "", ""),
       MkAction("B", "click", "", ""),
       MkAction("C", "input", "#name", "rec"),
       MkAction("D", "click", "#go", "") >>

Workflows == {WorkflowA, WorkflowB, WorkflowC}

(***************************************************************************)
(* Exceptions the browser collaborator raises.  str(e) is modelled as its  *)
(* lines; the stale test of the code is 'stale' in str(e).lower().         *)
(***************************************************************************)
ExcNames == {"stale", "emptymsg", "blank"}

ExcLines(e) ==
    CASE e = "stale" -> <<"Message: stale element reference", "Stacktrace">>
      [] e = "emptymsg" -> <<"Message: ", "Stacktrace">>
      [] OTHER -> <<"">>

IsStale(e) == e = "stale"

DefaultErrorText == "Element not found or browser error - check selectors in Verify Workflow"

\* error_msg of _run_partial_thread's except branch
ErrorMsg(e) ==
    LET lines == ExcLines(e)
        first == IF lines = <<"">> THEN "Unknown error" ELSE lines[1]
    IN IF first = "" \/ first = "Message: " THEN DefaultErrorText ELSE first

NoEntry == [status |-> "none", error |-> ""]
CompletedEntry == [status |-> "completed", error |-> ""]
FailedEntry(e) == [status |-> "failed", error |-> ErrorMsg(e)]

RowIdx == 0 .. (NumRows - 1)

\* load_processing_status / save_processing_status: the whole dict is read
\* and the whole file is rewritten.
LoadProcessingStatus(file) == file

\* a save that does not reach the file
SaveProcessingStatusLost(file, status) == file

SaveProcessingStatus(file, status) == status

(***************************************************************************)
(* Responses of the browser to one action.                                *)
(***************************************************************************)
Resp == {"ok"} \cup ExcNames

SubResp(kind) ==
    IF kind = "keyboard" THEN {"ok", "body_ok"} \cup ExcNames
    ELSE {"ok", "fail"}

Responses(a) ==
    IF a.action = "interactive_sequence"
    THEN { [first |-> "ok", retry |-> "ok", sub |-> s] :
             s \in { f \in [1 .. Len(a.sub) -> {"ok", "body_ok", "fail"} \cup ExcNames] :
                       \A k \in 1 .. Len(a.sub) : f[k] \in SubResp(a.sub[k]) } }
    ELSE IF a.action = "click"
    THEN { [first |-> f, retry |-> r, sub |-> <<>>] :
             f \in Resp, r \in Resp } \ { x \in [first : Resp, retry : Resp, sub : {<<>>}] :
                                            ~IsStale(x.first) /\ x.retry # "ok" }
    ELSE { [first |-> f, retry |-> "ok", sub |-> <<>>] : f \in Resp }

(***************************************************************************)
(* One iteration of the for-loop of replay_workflow_single_row.           *)
(* Result: raised (the exception left the loop body), exc, the trace       *)
(* entry, and swallowed (an error was caught and only logged).             *)
(***************************************************************************)
\* index of the first keyboard sub-step whose fallback to <body> fails too
FirstRaising(subs) ==
    LET bad == { k \in 1 .. Len(subs) : subs[k] \in ExcNames }
    IN IF bad = {} THEN 0 ELSE CHOOSE k \in bad : \A j \in bad : k <= j

Entry(a, idx, first, retries, sub, outcome) ==
    [id |-> a.id, kind |-> a.action, step |-> idx, first |-> first,
     retries |-> retries, sub |-> sub, outcome |-> outcome]

Result(raised, exc, swallowed, entry) ==
    [raised |-> raised, exc |-> exc, swallowed |-> swallowed, entry |-> entry]

\* stale retry of the click branch: one re-locate and one more el.click()
ClickRetries(first) == IF IsStale(first) THEN 1 ELSE 0

\* input and select: el.clear()/send_keys()/select_by_visible_text() are not
\* wrapped in a retry
FieldRetries(first) == 0

SingleRowStep(a, idx, r) ==
    IF a.action = "interactive_sequence" THEN
        LET k == FirstRaising(r.sub)
            done == IF k = 0 THEN r.sub ELSE SubSeq(r.sub, 1, k)
            swallowed == \E j \in 1 .. Len(done) : done[j] = "fail"
        IN IF k = 0
           THEN Result(FALSE, "ok", swallowed, Entry(a, idx, "ok", 0, done, "ok"))
           ELSE Result(TRUE, r.sub[k], swallowed, Entry(a, idx, "ok", 0, done, "raised"))
    ELSE IF a.action = "keyboard" THEN
        IF r.first = "ok"
        THEN Result(FALSE, "ok", FALSE, Entry(a, idx, r.first, 0, <<>>, "ok"))
        ELSE Result(TRUE, r.first, FALSE, Entry(a, idx, r.first, 0, <<>>, "raised"))
    ELSE IF a.selector = "" /\ a.action # "navigate" THEN
        Result(FALSE, "ok", FALSE, Entry(a, idx, "ok", 0, <<>>, "skipped"))
    ELSE IF a.action = "navigate" THEN
        IF a.url = ""
        THEN Result(FALSE, "ok", FALSE, Entry(a, idx, "ok", 0, <<>>, "skipped"))
        ELSE IF r.first = "ok"
        THEN Result(FALSE, "ok", FALSE, Entry(a, idx, r.first, 0, <<>>, "ok"))
        ELSE Result(TRUE, r.first, FALSE, Entry(a, idx, r.first, 0, <<>>, "raised"))
    ELSE IF a.action = "click" THEN
        IF r.first = "ok"
        THEN Result(FALSE, "ok", FALSE, Entry(a, idx, r.first, 0, <<>>, "ok"))
        ELSE IF ClickRetries(r.first) = 1
        THEN IF r.retry = "ok"
             THEN Result(FALSE, "ok", FALSE, Entry(a, idx, r.first, 1, <<>>, "ok"))
             ELSE Result(TRUE, r.retry, FALSE, Entry(a, idx, r.first, 1, <<>>, "raised"))
        ELSE Result(TRUE, r.first, FALSE, Entry(a, idx, r.first, 0, <<>>, "raised"))
    ELSE IF a.action \in {"input", "select"} THEN
        IF r.first = "ok"
        THEN Result(FALSE, "ok", FALSE, Entry(a, idx, r.first, 0, <<>>, "ok"))
        ELSE Result(TRUE, r.first, FALSE,
                    Entry(a, idx, r.first, FieldRetries(r.first), <<>>, "raised"))
    ELSE Result(FALSE, "ok", FALSE, Entry(a, idx, "ok", 0, <<>>, "skipped"))

\* start_idx of replay_workflow_single_row
StartIdx(loop_start, session_iteration) ==
    IF session_iteration > 1 /\ loop_start > 0 THEN loop_start ELSE 0


(***************************************************************************)
(* run_partial_workflow and _run_partial_thread.                           *)
(***************************************************************************)
Workers == 1 .. MaxWorkers

EmptyStatus == [idx \in RowIdx |-> NoEntry]

IdleWorker ==
    [pc |-> "idle", rows |-> <<>>, i |-> 0, actions |-> <<>>,
     loop_start |-> 0, status |-> EmptyStatus, trace |-> <<>>,
     swallowed |-> FALSE, saved |-> {}, driver |-> "none", ended |-> "",
     row_count |-> 0]

\* a thread that has returned: its locals are gone, ended tells how it ended
Ended(how, driver) == [IdleWorker EXCEPT !.pc = "done", !.ended = how, !.driver = driver]

Active(wk) == wk.pc \in {"start", "row", "mark", "failed"}

IdleFull ==
    [pc |-> "idle", row |-> 0, step |-> 0, actions |-> <<>>,
     firstFailed |-> -1, nexec |-> 0, driver |-> "none"]

\* the validation loop of run_partial_workflow: steps without a selector are
\* dropped from the in-memory copy, except the kinds that need none
IsValidStep(a) ==
    \/ a.action \in {"navigate", "keyboard", "interactive_sequence"}
    \/ a.selector # ""

RECURSIVE ValidActions(_)
ValidActions(actions) ==
    IF actions = <<>> THEN <<>>
    ELSE IF IsValidStep(Head(actions))
         THEN <<Head(actions)>> \o ValidActions(Tail(actions))
         ELSE ValidActions(Tail(actions))

\* unprocessed_indices: ascending CSV indices whose entry is not 'completed'
RECURSIVE UnprocessedFrom(_, _)
UnprocessedFrom(idx, status) ==
    IF idx >= NumRows THEN <<>>
    ELSE IF status[idx].status # "completed"
         THEN <<idx>> \o UnprocessedFrom(idx + 1, status)
         ELSE UnprocessedFrom(idx + 1, status)

\* the slice seq[:n] of Python: a negative n counts from the end
Take(seq, n) ==
    SubSeq(seq, 1, IF n < 0 THEN (IF Len(seq) + n > 0 THEN Len(seq) + n ELSE 0)
                   ELSE IF n < Len(seq) THEN n ELSE Len(seq))

\* int(row_count_var.get()): the entry of the spinbox takes typed numbers
\* below its lower limit too
RowCounts == -1 .. MaxRowCount

\* The GUI thread is free unless replay_workflow is running on it.
GuiFree == full.pc # "run"

RunPartialWorkflowSavingValid(w, row_count) ==
    LET status == LoadProcessingStatus(statusFile)
        unprocessed == UnprocessedFrom(0, status)
    IN /\ full.pc # "run"
       /\ workers[w].pc = "idle"
       /\ \A v \in Workers : v < w => workers[v].pc # "idle"
       /\ unprocessed # <<>>
       /\ workers' = [workers EXCEPT ![w] =
              [IdleWorker EXCEPT !.pc = "start",
                                 !.rows = Take(unprocessed, row_count),
                                 !.row_count = row_count,
                                 !.actions = ValidActions(workflowFile.actions),
                                 !.loop_start = workflowFile.loop_start_step]]
       /\ workflowFile' = [workflowFile EXCEPT !.actions = ValidActions(@)]
       /\ UNCHANGED <<statusFile, full, verifyVars, appVars>>

RunPartialWorkflow(w, row_count) ==
    LET status == LoadProcessingStatus(statusFile)
        unprocessed == UnprocessedFrom(0, status)
    IN /\ GuiFree
       /\ workers[w].pc = "idle"
       /\ \A v \in Workers : v < w => workers[v].pc # "idle"
       /\ unprocessed # <<>>
       /\ workers' = [workers EXCEPT ![w] =
              [IdleWorker EXCEPT !.pc = "start",
                                 !.rows = Take(unprocessed, row_count),
                                 !.row_count = row_count,
                                 !.actions = ValidActions(workflowFile.actions),
                                 !.loop_start = workflowFile.loop_start_step]]
       /\ UNCHANGED <<workflowFile, statusFile, full, verifyVars, appVars>>

WorkerStartRecordingFailure(w, outcome) ==
    /\ workers[w].pc = "start"
    /\ workers' = [workers EXCEPT ![w] =
           IF outcome = "ok"
           THEN IF @.rows = <<>> THEN Ended("ok", "quit")
                ELSE [@ EXCEPT !.pc = "row", !.i = 1, !.driver = "open",
                               !.status = LoadProcessingStatus(statusFile)]
           ELSE Ended("aborted", IF outcome = "nav_fail" THEN "open" ELSE "none")]
    /\ statusFile' = IF outcome = "ok" \/ workers[w].rows = <<>> THEN statusFile
                     ELSE [statusFile EXCEPT ![workers[w].rows[1]] = FailedEntry("stale")]
    /\ UNCHANGED <<workflowFile, full, verifyVars, appVars>>

\* init_driver, load_processing_status, driver.get(initial_url); with no
\* row to process the loop is skipped and the driver is quit
WorkerStart(w, outcome) ==
    /\ workers[w].pc = "start"
    /\ workers' = [workers EXCEPT ![w] =
           IF outcome = "ok"
           THEN IF @.rows = <<>> THEN Ended("ok", "quit")
                ELSE [@ EXCEPT !.pc = "row", !.i = 1, !.driver = "open",
                               !.status = LoadProcessingStatus(statusFile)]
           ELSE Ended("aborted", IF outcome = "nav_fail" THEN "open" ELSE "none")]
    /\ UNCHANGED <<workflowFile, statusFile, full, verifyVars, appVars>>

CurrentRow(wk) == wk.rows[wk.i]

\* replay_workflow_single_row as a whole: every way the for-loop over
\* actions[idx:] can end, for every answer of the browser.  trace lists the
\* iterations performed, in order; raised tells whether an exception left
\* the function (the except branch logs and re-raises).
RECURSIVE RowOutcomes(_, _)
RowOutcomes(actions, idx) ==
    IF idx >= Len(actions)
    THEN {[trace |-> <<>>, raised |-> FALSE, exc |-> "ok", swallowed |-> FALSE]}
    ELSE UNION {
           LET res == SingleRowStep(actions[idx + 1], idx, r)
           IN IF res.raised
              THEN {[trace |-> <<res.entry>>, raised |-> TRUE, exc |-> res.exc,
                     swallowed |-> res.swallowed]}
              ELSE {[trace |-> <<res.entry>> \o rest.trace, raised |-> rest.raised,
                     exc |-> rest.exc, swallowed |-> res.swallowed \/ rest.swallowed] :
                       rest \in RowOutcomes(actions, idx + 1)}
           : r \in Responses(actions[idx + 1]) }

ReplayWorkflowSingleRow(actions, loop_start, session_iteration) ==
    RowOutcomes(actions, StartIdx(loop_start, session_iteration))

PendingOutcomes(wk) ==
    IF wk.pc = "row"
    THEN ReplayWorkflowSingleRow(wk.actions, wk.loop_start, wk.i)
    ELSE {}

\* the body of the row loop up to the return of replay_workflow_single_row;
\* an exception is handled by the except branch of the loop (status
\* 'failed', save, driver.quit(), return)
ReplayRow(w, out) ==
    LET wk == workers[w]
        failed == [wk.status EXCEPT ![CurrentRow(wk)] = FailedEntry(out.exc)]
    IN /\ wk.pc = "row"
       /\ IF out.raised
          THEN /\ workers' = [workers EXCEPT ![w] =
                      [wk EXCEPT !.pc = "failed", !.status = failed,
                                 !.trace = out.trace, !.swallowed = out.swallowed,
                                 !.driver = "quit"]]
               /\ statusFile' = SaveProcessingStatus(statusFile, failed)
          ELSE /\ workers' = [workers EXCEPT ![w] =
                      [wk EXCEPT !.pc = "mark", !.trace = out.trace,
                                 !.swallowed = out.swallowed]]
               /\ UNCHANGED statusFile
       /\ UNCHANGED <<workflowFile, full, verifyVars, appVars>>

\* replay_workflow_single_row returned: mark the row completed, save, and go
\* on with the next row (or leave the loop and quit the driver)
MarkCompleted(w) ==
    LET wk == workers[w]
        row == CurrentRow(wk)
        status == [wk.status EXCEPT ![row] = CompletedEntry]
        file == SaveProcessingStatus(statusFile, status)
        last == wk.i >= Len(wk.rows)
    IN /\ wk.pc = "mark"
       /\ statusFile' = file
       /\ workers' = [workers EXCEPT ![w] =
              IF last
              THEN Ended("ok", "quit")
              ELSE [wk EXCEPT !.status = status,
                              !.saved = IF file[row].status = "completed"
                                        THEN @ \cup {row} ELSE @,
                              !.i = @ + 1, !.pc = "row",
                              !.trace = <<>>, !.swallowed = FALSE]]
       /\ UNCHANGED <<workflowFile, full, verifyVars, appVars>>

\* the return after a failed row: the thread ends
ThreadExit(w) ==
    /\ workers[w].pc = "failed"
    /\ workers' = [workers EXCEPT ![w] = Ended("failed", "quit")]
    /\ UNCHANGED <<workflowFile, statusFile, full, verifyVars, appVars>>

\* on_view_status and its "Clear All Status" button: the dialog opens only
\* when the status is not empty; a confirmed clear removes the status file
ClearStatus(response) ==
    /\ GuiFree
    /\ LoadProcessingStatus(statusFile) # EmptyStatus
    /\ statusFile' = IF response THEN EmptyStatus ELSE statusFile
    /\ UNCHANGED <<workflowFile, workers, full, verifyVars, appVars>>

(***************************************************************************)
(* on_run_workflow_browser and replay_workflow.                            *)
(***************************************************************************)
\* one iteration of the inner loop of replay_workflow: TRUE when the action
\* reached the browser
FullTouchesBrowser(a) ==
    /\ a.selector # ""
    /\ \/ a.action = "navigate" /\ a.url # ""
       \/ a.action \in {"click", "input", "select"}

RunWorkflowBrowser(run_anyway, outcome) ==
    /\ full.pc = "idle"
    /\ \A w \in Workers : workers[w].pc = "idle"
    /\ workflowFile.verification_complete \/ run_anyway
    /\ full' = IF outcome = "ok"
               THEN [IdleFull EXCEPT !.pc = "run", !.driver = "open",
                                     !.actions = workflowFile.actions]
               ELSE [IdleFull EXCEPT !.pc = "done",
                                     !.driver = IF outcome = "nav_fail" THEN "open" ELSE "none"]
    /\ UNCHANGED <<workflowFile, statusFile, workers, verifyVars, appVars>>

FullExec(r) ==
    LET a == full.actions[full.step + 1]
        touches == FullTouchesBrowser(a)
    IN /\ full.pc = "run"
       /\ full.step < Len(full.actions)
       /\ r \in Resp
       /\ ~touches => r = "ok"
       /\ full' = [full EXCEPT !.step = @ + 1,
                               !.nexec = IF touches THEN @ + 1 ELSE @,
                               !.firstFailed = IF r # "ok" /\ @ < 0 THEN full.row ELSE @]
       /\ UNCHANGED <<workflowFile, statusFile, workers, verifyVars, appVars>>

FullNextRow ==
    /\ full.pc = "run"
    /\ full.step >= Len(full.actions)
    /\ full' = IF full.row + 1 < NumRows
               THEN [full EXCEPT !.row = @ + 1, !.step = 0]
               ELSE [full EXCEPT !.pc = "done", !.driver = "quit"]
    /\ UNCHANGED <<workflowFile, statusFile, workers, verifyVars, appVars>>

(***************************************************************************)
(* VerificationDialog.  The handlers are written as functions on the       *)
(* triple st = [dlg, wf, pf] (dialog object, workflow file, partial file)  *)
(* so that a handler and the show_step / complete_verification / on_close  *)
(* calls it ends with form one step.                                       *)
(***************************************************************************)
Range(seq) == { seq[k] : k \in 1 .. Len(seq) }

RemoveAt(seq, k) == SubSeq(seq, 1, k - 1) \o SubSeq(seq, k + 1, Len(seq))

\* list.insert(pos, x) with a 0-based pos
InsertAt(seq, pos, x) ==
    LET p == IF pos > Len(seq) THEN Len(seq) ELSE pos
    IN SubSeq(seq, 1, p) \o <<x>> \o SubSeq(seq, p + 1, Len(seq))

NaN == "<NaN>"

\* df.iloc[0].to_dict()
TestRow == [c \in {"Company"} |-> "Acme"]

\* the selectors of the mappable (input and select) actions
Selectors == {"#name", "#state"}

\* csv_mapping of the stored workflow; "" where the dict has no key
VerifyMapping == [sel \in Selectors |->
                    IF sel = "#name" THEN "Company" ELSE "__RECORDED__"]

\* the value shown for an input/select step; llm_value is the answer of
\* infer_field_value_with_llm ("" when there is none or inference is off)
GetValueAndSource(a, mapping, row, llm_value) ==
    LET csv_col == IF a.selector \in DOMAIN mapping THEN mapping[a.selector] ELSE ""
    IN IF csv_col = "__RECORDED__" THEN a.value
       ELSE IF csv_col # "" /\ csv_col \in DOMAIN row
            THEN IF row[csv_col] = NaN THEN "" ELSE row[csv_col]
            ELSE IF llm_value # "" THEN llm_value ELSE a.value

\* option texts of the <select> on the page; <<>> when they cannot be fetched
SelectOptions(selector) == IF selector = "#state" THEN <<"TX", "rec">> ELSE <<>>

ShowSelectDropdown(a, current_value) ==
    LET options == SelectOptions(a.selector)
    IN IF options = <<>> THEN current_value
       ELSE IF current_value \in Range(options) THEN current_value ELSE options[1]

AbsentFile ==
    [exists |-> FALSE, actions |-> <<>>, deleted_steps |-> <<>>,
     verification_complete |-> FALSE]

ClosedDialog ==
    [open |-> FALSE, actions |-> <<>>, csv_mapping |-> VerifyMapping,
     current_step |-> 0, verified_actions |-> <<>>, deleted_steps |-> <<>>,
     approved |-> FALSE, step_name_var |-> "", override_var |-> "",
     ninterventions |-> 0]

\* the last operation of the operator: its name, the actions it executed
\* against the browser, whether they succeeded, and the answer given to the
\* "Execution Error" dialog
NoOp == [op |-> "none", executed |-> <<>>, ok |-> TRUE, recovery |-> ""]

Op(name, executed, ok, recovery) ==
    [op |-> name, executed |-> executed, ok |-> ok, recovery |-> recovery]

\* save_verification_progress: configs/<site>_verified_partial.json
SaveVerificationProgress(st) ==
    [st EXCEPT !.pf = [exists |-> TRUE,
                       actions |-> st.dlg.verified_actions,
                       deleted_steps |-> st.dlg.deleted_steps,
                       verification_complete |-> FALSE]]

\* a close that writes the workflow file even when nothing was verified
OnCloseUnguarded(st) ==
    [st EXCEPT !.wf = [@ EXCEPT !.actions = st.dlg.verified_actions,
                                !.deleted_steps = st.dlg.deleted_steps,
                                !.verification_complete = FALSE],
               !.dlg = [@ EXCEPT !.open = FALSE]]

\* on_close: also the last call of complete_verification
OnClose(st) ==
    [st EXCEPT !.wf = IF st.dlg.verified_actions # <<>>
                      THEN [@ EXCEPT !.actions = st.dlg.verified_actions,
                                     !.deleted_steps = st.dlg.deleted_steps,
                                     !.verification_complete = FALSE]
                      ELSE @,
               !.dlg = [@ EXCEPT !.open = FALSE]]

\* complete_verification; purge is the answer to "PERMANENTLY delete them?"
CompleteVerification(st, purge) ==
    LET deleted == IF st.dlg.deleted_steps # <<>> /\ purge
                   THEN <<>> ELSE st.dlg.deleted_steps
        saved == [st EXCEPT
                    !.dlg = [@ EXCEPT !.approved = TRUE, !.deleted_steps = deleted],
                    !.wf = [@ EXCEPT !.actions = st.dlg.verified_actions,
                                     !.verification_complete = TRUE,
                                     !.deleted_steps_archive =
                                         IF deleted # <<>> THEN deleted ELSE @],
                    !.pf = AbsentFile]
    IN OnClose(saved)

\* a show_step that takes the last step for the end of the list
ShowStepOffByOne(st, purge) ==
    IF st.dlg.current_step + 1 >= Len(st.dlg.actions)
    THEN CompleteVerification(st, purge)
    ELSE [st EXCEPT !.dlg = [@ EXCEPT
            !.step_name_var = st.dlg.actions[st.dlg.current_step + 1].step_name,
            !.override_var = ""]]

\* show_step
ShowStep(st, purge) ==
    IF st.dlg.current_step >= Len(st.dlg.actions)
    THEN CompleteVerification(st, purge)
    ELSE LET a == st.dlg.actions[st.dlg.current_step + 1]
             value == GetValueAndSource(a, st.dlg.csv_mapping, TestRow, "")
         IN [st EXCEPT !.dlg = [@ EXCEPT
                !.step_name_var = a.step_name,
                !.override_var =
                    IF a.action \in {"click", "navigate", "interactive_sequence", "keyboard"}
                    THEN ""
                    ELSE IF a.action = "select" THEN ShowSelectDropdown(a, value)
                    ELSE IF a.action = "input" THEN value
                    ELSE @]]

\* the action approve_step executes and records: a copy of actions[i] with
\* the step name and the override of the two entry fields
ApprovedAction(d) ==
    LET a == d.actions[d.current_step + 1]
        named == IF d.step_name_var # "" THEN [a EXCEPT !.step_name = d.step_name_var] ELSE a
    IN IF d.override_var # "" /\ a.action \in {"input", "select"}
       THEN [named EXCEPT !.value = d.override_var]
       ELSE named

\* an approve that moves on without recording the step
ApproveStepUnrecorded(st, outcome, response, purge) ==
    ShowStep([st EXCEPT !.dlg.current_step = @ + 1], purge)

\* an approve that records the step although its execution failed
ApproveStepRecordingFailure(st, outcome, response, purge) ==
    ShowStep([SaveVerificationProgress(
                [st EXCEPT !.dlg = [@ EXCEPT
                    !.actions[st.dlg.current_step + 1] = ApprovedAction(st.dlg),
                    !.verified_actions = Append(@, ApprovedAction(st.dlg))]])
              EXCEPT !.dlg.current_step = @ + 1], purge)

\* approve_step; outcome is what execute_action does, response the answer
\* to the "Execution Error" dialog
ApproveStep(st, outcome, response, purge) ==
    LET d == st.dlg
        action == ApprovedAction(d)
        \* the name and the override are written to config['actions'][i] too
        d1 == [d EXCEPT !.actions[d.current_step + 1] = action]
    IN IF outcome = "ok"
       THEN ShowStep([SaveVerificationProgress(
                        [st EXCEPT !.dlg = [d1 EXCEPT !.verified_actions = Append(@, action)]])
                      EXCEPT !.dlg.current_step = @ + 1], purge)
       ELSE IF response = "yes"
       THEN ShowStep([st EXCEPT !.dlg = [d1 EXCEPT !.current_step = @ + 1]], purge)
       ELSE IF response = "no" /\ d.current_step > 0
       THEN ShowStep(SaveVerificationProgress(
                [st EXCEPT !.dlg = [d1 EXCEPT
                    !.verified_actions = IF @ # <<>> THEN SubSeq(@, 1, Len(@) - 1) ELSE @,
                    !.current_step = @ - 1]]), purge)
       ELSE [st EXCEPT !.dlg = d1]

\* config['actions'][current_step]['step_name'] = step_name, when one is typed
SaveStepName(d) ==
    IF d.step_name_var # ""
    THEN [d EXCEPT !.actions[d.current_step + 1].step_name = d.step_name_var]
    ELSE d

\* a skip that records the step as verified
SkipStepRecording(st, purge) ==
    ShowStep([SaveVerificationProgress(
                [st EXCEPT !.dlg = [SaveStepName(@) EXCEPT
                    !.verified_actions = Append(@, st.dlg.actions[st.dlg.current_step + 1])]])
              EXCEPT !.dlg.current_step = @ + 1], purge)

\* skip_step
SkipStep(st, purge) ==
    ShowStep([SaveVerificationProgress([st EXCEPT !.dlg = SaveStepName(@)])
              EXCEPT !.dlg.current_step = @ + 1], purge)

\* a move back that keeps the last verified entry
GoPreviousNoPop(st, purge) ==
    IF st.dlg.current_step > 0
    THEN ShowStep([SaveVerificationProgress([st EXCEPT !.dlg = SaveStepName(@)])
                   EXCEPT !.dlg.current_step = @ - 1], purge)
    ELSE st

\* go_previous returning to the first step instead of the step before
GoPreviousToStart(st, purge) ==
    IF st.dlg.current_step > 0
    THEN LET s1 == [st EXCEPT !.dlg = SaveStepName(@)]
             s2 == [s1 EXCEPT !.dlg.verified_actions =
                        IF @ # <<>> THEN SubSeq(@, 1, Len(@) - 1) ELSE @]
         IN ShowStep([SaveVerificationProgress(s2) EXCEPT !.dlg.current_step = 0], purge)
    ELSE st

\* go_previous
GoPrevious(st, purge) ==
    IF st.dlg.current_step > 0
    THEN ShowStep([SaveVerificationProgress(
                     [st EXCEPT !.dlg = [SaveStepName(@) EXCEPT
                         !.verified_actions =
                             IF @ # <<>> THEN SubSeq(@, 1, Len(@) - 1) ELSE @]])
                   EXCEPT !.dlg.current_step = @ - 1], purge)
    ELSE st

\* a deletion that also steps over the action that moved into place
DeleteStepAdvancing(st, response, purge) ==
    LET d == st.dlg
    IN IF d.actions = <<>> \/ d.current_step >= Len(d.actions) \/ ~response
       THEN st
       ELSE ShowStep(SaveVerificationProgress(
                [st EXCEPT !.dlg = [d EXCEPT
                    !.deleted_steps = Append(@, [step |-> d.actions[d.current_step + 1],
                                                 position |-> d.current_step]),
                    !.actions = RemoveAt(@, d.current_step + 1),
                    !.current_step = @ + 1]]), purge)

\* delete_step; response is the answer to "Delete ... at position ...?"
DeleteStep(st, response, purge) ==
    LET d == st.dlg
    IN IF d.actions = <<>> \/ d.current_step >= Len(d.actions) \/ ~response
       THEN st
       ELSE ShowStep(SaveVerificationProgress(
                [st EXCEPT !.dlg = [d EXCEPT
                    !.deleted_steps = Append(@, [step |-> d.actions[d.current_step + 1],
                                                 position |-> d.current_step]),
                    !.actions = RemoveAt(@, d.current_step + 1)]]), purge)

\* the step built by insert_step.on_insert
NewStep(id, step_type, step_name) ==
    [MkAction(id, step_type, "div:nth-of-type(1)", "") EXCEPT
        !.step_name = step_name,
        !.url = IF step_type = "navigate" THEN "http://site/current" ELSE ""]

\* the step built by add_keyboard_action.save_actions
NewSequence(id, recorded_keys, step_name) ==
    [MkSequence(id, recorded_keys) EXCEPT
        !.step_name = IF step_name = "" THEN "Interactive Navigation" ELSE step_name]

\* an insertion that leaves the cursor where it was
InsertAfterStaying(st, new_step, purge) ==
    ShowStep(SaveVerificationProgress(
        [st EXCEPT !.dlg = [@ EXCEPT
            !.actions = InsertAt(@, st.dlg.current_step + 1, new_step)]]), purge)

\* on_insert and save_actions: insert after the current step and move onto it
InsertAfter(st, new_step, purge) ==
    LET insert_position == st.dlg.current_step + 1
    IN ShowStep([SaveVerificationProgress(
                   [st EXCEPT !.dlg = [@ EXCEPT
                       !.actions = InsertAt(@, insert_position, new_step)]])
                 EXCEPT !.dlg.current_step = insert_position], purge)

\* the listing loop of restore_deleted formats orig_pos + 1, where orig_pos
\* is step.get('original_position', '?'): it raises TypeError for an entry
\* without that key
ListingRaises(deleted_steps) ==
    \E k \in 1 .. Len(deleted_steps) : "original_position" \notin DOMAIN deleted_steps[k]

\* restore_deleted.on_restore
OnRestore(st, idx, purge) ==
    LET restored_step == st.dlg.deleted_steps[idx + 1]
    IN ShowStep(SaveVerificationProgress(
            [st EXCEPT !.dlg = [@ EXCEPT
                !.deleted_steps = RemoveAt(@, idx + 1),
                !.actions = InsertAt(@, st.dlg.current_step, restored_step)]]), purge)

\* restore_deleted: the "Restore Selected" button exists only when the
\* listing loop has run to its end
RestoreDeleted(st, idx, purge) ==
    IF st.dlg.deleted_steps = <<>> \/ ListingRaises(st.dlg.deleted_steps)
    THEN st
    ELSE OnRestore(st, idx, purge)

Cur == [dlg |-> dlg, wf |-> workflowFile, pf |-> partialFile]

Apply(st) ==
    /\ dlg' = st.dlg
    /\ workflowFile' = st.wf
    /\ partialFile' = st.pf

\* one more intervention of the operator
Intervened(st, counted) ==
    [st EXCEPT !.dlg.ninterventions = IF counted THEN @ + 1 ELSE @]

MayIntervene == dlg.ninterventions < MaxInterventions

\* "Approve & Next"
Approve(outcome, response, purge) ==
    LET back == outcome # "ok" /\ response = "no" /\ dlg.current_step > 0
    IN /\ dlg.open
       /\ outcome = "ok" => response = "cancel"
       /\ back => MayIntervene
       /\ Apply(Intervened(ApproveStep(Cur, outcome, response, purge), back))
       /\ lastOp' = Op("approve", <<ApprovedAction(dlg)>>, outcome = "ok",
                       IF outcome = "ok" THEN "" ELSE response)
       /\ UNCHANGED <<replayVars, appVars>>

\* "Skip (Don't Execute)"
Skip(purge) ==
    /\ dlg.open
    /\ Apply(SkipStep(Cur, purge))
    /\ lastOp' = Op("skip", <<>>, TRUE, "")
    /\ UNCHANGED <<replayVars, appVars>>

\* "Previous Step"
Previous(purge) ==
    /\ dlg.open
    /\ dlg.current_step > 0 => MayIntervene
    /\ Apply(Intervened(GoPrevious(Cur, purge), dlg.current_step > 0))
    /\ lastOp' = Op("previous", <<>>, TRUE, "")
    /\ UNCHANGED <<replayVars, appVars>>

\* "Delete Step"
Delete(response, purge) ==
    /\ dlg.open
    /\ response => MayIntervene
    /\ Apply(Intervened(DeleteStep(Cur, response, purge), response))
    /\ lastOp' = Op(IF response THEN "delete" ELSE "delete_declined", <<>>, TRUE, "")
    /\ UNCHANGED <<replayVars, appVars>>

InsertTypes == {"click", "input", "select", "navigate"}

NewId(n) == IF n = 0 THEN "X1" ELSE IF n = 1 THEN "X2" ELSE "X3"

\* "Insert Step After", with a step type and a (required) step name
Insert(step_type, purge) ==
    /\ dlg.open
    /\ MayIntervene
    /\ Apply(Intervened(InsertAfter(Cur, NewStep(NewId(dlg.ninterventions), step_type,
                                                 "inserted"), purge), TRUE))
    /\ lastOp' = Op("insert", <<>>, TRUE, "")
    /\ UNCHANGED <<replayVars, appVars>>

\* "Add Keyboard Action", with at least one recorded key
AddKeyboard(purge) ==
    /\ dlg.open
    /\ MayIntervene
    /\ Apply(Intervened(InsertAfter(Cur, NewSequence(NewId(dlg.ninterventions),
                                                     <<"keyboard">>, ""), purge), TRUE))
    /\ lastOp' = Op("insert", <<>>, TRUE, "")
    /\ UNCHANGED <<replayVars, appVars>>

\* "Restore Deleted", with the entry the operator would select
Restore(idx, purge) ==
    /\ dlg.open
    /\ dlg.deleted_steps # <<>>
    /\ idx < Len(dlg.deleted_steps)
    /\ Apply(RestoreDeleted(Cur, idx, purge))
    /\ lastOp' = Op("restore", <<>>, ~ListingRaises(dlg.deleted_steps), "")
    /\ UNCHANGED <<replayVars, appVars>>

\* "Cancel Verification" or closing the window
Cancel ==
    /\ dlg.open
    /\ Apply(OnClose(Cur))
    /\ lastOp' = Op("cancel", <<>>, TRUE, "")
    /\ UNCHANGED <<replayVars, appVars>>

\* the operator edits the "Step Name" and "Override value" entries
EditEntries(name, value) ==
    /\ dlg.open
    /\ MayIntervene
    /\ <<name, value>> # <<dlg.step_name_var, dlg.override_var>>
    /\ dlg' = [dlg EXCEPT !.step_name_var = name, !.override_var = value,
                          !.ninterventions = @ + 1]
    /\ lastOp' = Op("edit", <<>>, TRUE, "")
    /\ UNCHANGED <<workflowFile, partialFile, replayVars, appVars>>

(***************************************************************************)
(* WorkflowEditorDialog, opened by on_edit_workflow on the workflow file.  *)
(***************************************************************************)
ClosedEditor ==
    [open |-> FALSE, config |-> <<>>, deleted_indices |-> {}, loop_start_var |-> 0,
     mapping_combos |-> [sel \in Selectors |-> ""], saved |-> FALSE]

\* df.columns.tolist() of the CSV file
CsvColumns == {"Company"}

\* the text the combobox of a mappable row starts with; "" where the
\* workflow has no input or select action with that selector
InitialCombo(config, sel) ==
    IF \A i \in 1 .. Len(config.actions) :
           ~(config.actions[i].action \in {"input", "select"}
             /\ config.actions[i].selector = sel)
    THEN ""
    ELSE IF config.csv_mapping[sel] = "__RECORDED__" THEN "(use recorded value)"
    ELSE IF config.csv_mapping[sel] \in CsvColumns THEN config.csv_mapping[sel]
    ELSE "(skip)"

\* on_edit_workflow: loads the workflow file, builds the dialog (one row per
\* action, the radio group set to the stored loop start) and reads
\* get_result() at once; the constructor does not wait for the window, so
\* the result is None and the file is not written
OnEditWorkflow ==
    /\ ~editor.open
    /\ editor' = [open |-> TRUE, config |-> workflowFile, deleted_indices |-> {},
                  loop_start_var |-> workflowFile.loop_start_step,
                  mapping_combos |-> [sel \in Selectors |-> InitialCombo(workflowFile, sel)],
                  saved |-> FALSE]
    /\ UNCHANGED <<workflowFile, actions_log, recorder, replayVars, verifyVars, resolution>>

\* the Delete button of a row that is still shown
EditorDeleteStep(step_idx) ==
    /\ editor.open
    /\ step_idx \in 0 .. Len(editor.config.actions) - 1
    /\ step_idx \notin editor.deleted_indices
    /\ editor' = [editor EXCEPT !.deleted_indices = @ \cup {step_idx}]
    /\ UNCHANGED <<workflowFile, actions_log, recorder, replayVars, verifyVars, resolution>>

\* the loop-start radio button of a row that is still shown
SelectLoopStart(step_idx) ==
    /\ editor.open
    /\ step_idx \in 0 .. Len(editor.config.actions) - 1
    /\ step_idx \notin editor.deleted_indices
    /\ editor' = [editor EXCEPT !.loop_start_var = step_idx]
    /\ UNCHANGED <<workflowFile, actions_log, recorder, replayVars, verifyVars, resolution>>

\* the operator picks an entry of the mapping combobox of a row
SelectMapping(sel, choice) ==
    /\ editor.open
    /\ editor.mapping_combos[sel] # ""
    /\ choice \in {"(skip)", "(use recorded value)"} \cup CsvColumns
    /\ choice # editor.mapping_combos[sel]
    /\ editor' = [editor EXCEPT !.mapping_combos[sel] = choice]
    /\ UNCHANGED <<workflowFile, actions_log, recorder, replayVars, verifyVars, resolution>>

\* [action for idx, action in enumerate(original_actions)
\*  if idx not in self.deleted_indices], from position i on
RECURSIVE FilteredActions(_, _, _)
FilteredActions(original_actions, deleted_indices, i) ==
    IF i > Len(original_actions) THEN <<>>
    ELSE (IF (i - 1) \in deleted_indices THEN <<>> ELSE <<original_actions[i]>>)
         \o FilteredActions(original_actions, deleted_indices, i + 1)

\* new_mapping of save_changes
NewMapping(mapping_combos) ==
    [sel \in Selectors |->
        IF mapping_combos[sel] = "(use recorded value)" THEN "__RECORDED__"
        ELSE IF mapping_combos[sel] \in {"", "(skip)"} THEN ""
        ELSE mapping_combos[sel]]

\* the config save_changes leaves in result_config
SaveChangesResult(ed) ==
    [ed.config EXCEPT !.csv_mapping = NewMapping(ed.mapping_combos),
                      !.actions = FilteredActions(ed.config.actions, ed.deleted_indices, 1),
                      !.loop_start_step = ed.loop_start_var]

\* "Save Changes": save_changes puts the edited config in result_config and
\* destroys the window; on_edit_workflow has returned long before, so nothing
\* reads the result
SaveChanges ==
    /\ editor.open
    /\ editor' = [editor EXCEPT !.open = FALSE, !.config = SaveChangesResult(editor),
                                !.saved = TRUE]
    /\ UNCHANGED <<workflowFile, actions_log, recorder, replayVars, verifyVars, resolution>>

\* "Cancel": result_config is None, nothing is written
EditorCancel ==
    /\ editor.open
    /\ editor' = [editor EXCEPT !.open = FALSE, !.saved = FALSE]
    /\ UNCHANGED <<workflowFile, actions_log, recorder, replayVars, verifyVars, resolution>>

\* map_csv_to_actions: what the mapping window returns for the recorded
\* input and select fields
MappingChoices ==
    { m \in [Selectors -> {"", "Company", "__RECORDED__"}] : m["#state"] # "Company" }

\* on_map_csv: the mapping window, then the update of an existing workflow file
OnMapCsv(mapping) ==
    /\ ~editor.open
    /\ actions_log # <<>>
    /\ \E i \in 1 .. Len(actions_log) : actions_log[i].action \in {"input", "select"}
    /\ workflowFile' =
          IF \E sel \in Selectors : mapping[sel] # ""
          THEN [workflowFile EXCEPT !.csv_mapping = mapping,
                                    !.actions = actions_log,
                                    !.verification_complete = FALSE]
          ELSE workflowFile
    /\ UNCHANGED <<actions_log, editor, recorder, replayVars, verifyVars, resolution>>

(***************************************************************************)
(* on_detect_fields: the recording loop, build_action_from_event and       *)
(* deduplicate_actions.  An absent or None key of a dict is the empty      *)
(* string; dict equality is record equality.                               *)
(***************************************************************************)
MkEvent(id, name, cssPath, eventType, tag, value) ==
    [id |-> id, name |-> name, cssPath |-> cssPath, eventType |-> eventType,
     tag |-> tag, value |-> value]

\* what the injected recorder reports: typing twice into one field, a click
\* into that field, a field known by name only, a select, a button, a link
\* known by its CSS path only, and an element without any locator
Events ==
    { MkEvent("email", "email_n", "", "input", "input", "v1"),
      MkEvent("email", "email_n", "", "input", "input", "v2"),
      MkEvent("email", "email_n", "", "click", "input", ""),
      MkEvent("", "name", "", "input", "input", "v1"),
      MkEvent("state", "", "", "change", "select", "v1"),
      MkEvent("go", "", "", "click", "button", ""),
      MkEvent("", "", "form > a", "click", "a", ""),
      MkEvent("", "", "", "click", "div", "") }

Urls == {"http://site/page2"}

NoAction == [action |-> "none"]

build_action_from_event(ev) ==
    LET by == IF ev.id # "" THEN "ID" ELSE IF ev.name # "" THEN "NAME" ELSE "CSS_SELECTOR"
        selector == IF ev.id # "" THEN ev.id ELSE IF ev.name # "" THEN ev.name ELSE ev.cssPath
        action == IF ev.eventType = "click" THEN "click"
                  ELSE IF ev.eventType \in {"input", "change"}
                       THEN (IF ev.tag = "select" THEN "select" ELSE "input")
                       ELSE "none"
    IN IF selector = "" \/ action = "none" THEN NoAction
       ELSE [action |-> action, by |-> by, selector |-> selector,
             value |-> IF action \in {"input", "select"} THEN ev.value ELSE "",
             url |-> "",
             field_context |-> [tag |-> ev.tag, id |-> ev.id, name |-> ev.name]]

\* the dict the loop appends when the URL of the browser has changed
NavigateAction(current_url) ==
    [action |-> "navigate", by |-> "", selector |-> "", value |-> "",
     url |-> current_url, field_context |-> [tag |-> "", id |-> "", name |-> ""]]

\* the order of Python's str on the strategies and selectors in use
ByRank == ("CSS_SELECTOR" :> 1) @@ ("ID" :> 2) @@ ("NAME" :> 3)

SelectorRank ==
    ("email" :> 1) @@ ("form > a" :> 2) @@ ("go" :> 3) @@ ("name" :> 4) @@ ("state" :> 5)

\* the order of Python's tuples on the keys (by, selector)
KeyLess(k1, k2) ==
    \/ ByRank[k1[1]] < ByRank[k2[1]]
    \/ k1[1] = k2[1] /\ SelectorRank[k1[2]] < SelectorRank[k2[2]]

\* last_input is a dict: a sequence of items in insertion order.
\* last_input[key] = act
SetItem(last_input, key, act) ==
    IF \E i \in 1 .. Len(last_input) : last_input[i].key = key
    THEN [i \in 1 .. Len(last_input) |->
            IF last_input[i].key = key THEN [key |-> key, act |-> act] ELSE last_input[i]]
    ELSE Append(last_input, [key |-> key, act |-> act])

\* last_input[key]
GetItem(last_input, key) ==
    (CHOOSE e \in Range(last_input) : e.key = key).act

\* last_input.keys()
Keys(last_input) == [i \in 1 .. Len(last_input) |-> last_input[i].key]

sortedAsReversed(keys) == [i \in 1 .. Len(keys) |-> keys[Len(keys) + 1 - i]]

\* sorted(keys)
RECURSIVE sorted(_)
sorted(keys) ==
    IF keys = <<>> THEN <<>>
    ELSE LET m == CHOOSE i \in 1 .. Len(keys) :
                     \A j \in 1 .. Len(keys) : ~KeyLess(keys[j], keys[i])
         IN <<keys[m]>> \o sorted(SubSeq(keys, 1, m - 1) \o SubSeq(keys, m + 1, Len(keys)))

\* for k in <ks>: if last_input[k] not in result: result.append(last_input[k])
RECURSIVE FlushKeys(_, _, _)
FlushKeys(result, last_input, ks) ==
    IF ks = <<>> THEN result
    ELSE LET act == GetItem(last_input, Head(ks))
         IN FlushKeys(IF act \in Range(result) THEN result ELSE Append(result, act),
                      last_input, Tail(ks))

Flush(result, last_input) == FlushKeys(result, last_input, sorted(Keys(last_input)))

\* the for-loop of deduplicate_actions over the rest of the stream, and the
\* flush that follows it
RECURSIVE DedupLoop(_, _, _)
DedupLoop(actions, last_input, result) ==
    IF actions = <<>> THEN Flush(result, last_input)
    ELSE LET act == Head(actions)
             key == <<act.by, act.selector>>
         IN IF act.action \in {"input", "select"}
            THEN DedupLoop(Tail(actions), SetItem(last_input, key, act), result)
            ELSE IF act.action = "click"
                 THEN DedupLoop(Tail(actions), <<>>, Append(Flush(result, last_input), act))
                 ELSE DedupLoop(Tail(actions), last_input, result)

deduplicate_actions(actions) == DedupLoop(actions, <<>>, <<>>)

\* recorder.raw is history: actions_log as the loop left it
IdleRecorder == [state |-> "idle", raw |-> <<>>]

\* on_detect_fields up to the start of the loop; when the browser cannot be
\* started the handler falls back to HTTP detection and records nothing
DetectFields(outcome) ==
    /\ recorder.state # "recording"
    /\ actions_log' = <<>>
    /\ recorder' = IF outcome = "ok" THEN [state |-> "recording", raw |-> <<>>]
                   ELSE IdleRecorder
    /\ UNCHANGED <<workflowFile, editor, replayVars, verifyVars, resolution>>

\* one pass of the loop that finds the URL changed
RecordNavigate(current_url) ==
    /\ recorder.state = "recording"
    /\ Len(actions_log) < MaxStream
    /\ actions_log' = Append(actions_log, NavigateAction(current_url))
    /\ UNCHANGED <<workflowFile, editor, recorder, replayVars, verifyVars, resolution>>

\* one drained event
RecordEvent(ev) ==
    /\ recorder.state = "recording"
    /\ Len(actions_log) < MaxStream
    /\ LET act == build_action_from_event(ev)
       IN actions_log' = IF act = NoAction THEN actions_log ELSE Append(actions_log, act)
    /\ UNCHANGED <<workflowFile, editor, recorder, replayVars, verifyVars, resolution>>

\* the browser is closed: the loop breaks and the log is deduplicated
BrowserClosed ==
    /\ recorder.state = "recording"
    /\ actions_log' = IF actions_log # <<>> THEN deduplicate_actions(actions_log)
                      ELSE actions_log
    /\ recorder' = [state |-> "finished", raw |-> actions_log]
    /\ UNCHANGED <<workflowFile, editor, replayVars, verifyVars, resolution>>

(***************************************************************************)
(* Value resolution of an input or select step: the branches of            *)
(* replay_workflow_single_row, get_value_and_source of the verification    *)
(* dialog, and infer_field_value_with_llm.  Python's None and a key that   *)
(* a dict does not hold are marker strings; the str methods are given by   *)
(* their values on the strings in use.                                     *)
(***************************************************************************)
PyNone == "<None>"

NoKey == "<no key>"

\* field_context['id'] of the step: None (the element had no id), no
\* field_context at all (a step inserted by hand), or an id
FieldIds == {PyNone, NoKey, "employees", "Staff_Size", "workforce", "home_state", "email"}

\* the columns of the CSV file and the column names a mapping can hold
RowColumns == {"employees", "State"}

Cells == {NaN, "  ", "  Colorado ", "California", "Texas"}

\* csv_mapping.get(selector): no entry, the sentinel, a column of the file,
\* a column the file does not have
MappingEntries == {PyNone, "__RECORDED__", "employees", "State", "Region"}

\* the content of the answer of the chat completion, or the call raising
Answers == {"<raise>", "CO", "None", "\"null\"", "", "about 45", "0"}

\* load_llm_config(): the default config, enabled without a key, enabled
LlmConfigs ==
    { [enabled |-> FALSE, api_key |-> ""],
      [enabled |-> TRUE, api_key |-> ""],
      [enabled |-> TRUE, api_key |-> "sk"] }

FieldAction(kind, id) ==
    [action |-> kind, selector |-> "#f", value |-> "rec", field_context |-> [id |-> id]]

\* str.lower()
lower(s) ==
    CASE s = "Staff_Size" -> "staff_size"
      [] s = "State" -> "state"
      [] s = "Region" -> "region"
      [] s = "  Colorado " -> "  colorado "
      [] s = "California" -> "california"
      [] s = "Texas" -> "texas"
      [] s = "CO" -> "co"
      [] s = "None" -> "none"
      [] OTHER -> s

\* str.strip()
strip(s) ==
    CASE s = "  " -> ""
      [] s = "  Colorado " -> "Colorado"
      [] s = "  colorado " -> "colorado"
      [] OTHER -> s

\* sub in s
Contains(sub, s) ==
    CASE sub = "employee" -> s \in {"employees"}
      [] sub = "staff" -> s \in {"staff_size"}
      [] sub = "workforce" -> s \in {"workforce"}
      [] sub = "state" -> s \in {"state", "home_state"}
      [] OTHER -> FALSE

\* re.findall(r'\d+', s)[0] as an int, -1 when the list is empty
FirstNumber(s) ==
    CASE s = "about 45" -> 45
      [] s = "0" -> 0
      [] OTHER -> -1

\* str(n) of the numbers the clamp can produce from FirstNumber
StrOfInt(n) ==
    CASE n = 1 -> "1"
      [] n = 30 -> "30"
      [] OTHER -> "45"

\* s.strip('"\'\'"')
StripQuotes(s) == IF s = "\"null\"" THEN "null" ELSE s

\* the entries of STATE_MAPPING for the state names in use
STATE_MAPPING == ("colorado" :> "CO") @@ ("california" :> "CA") @@ ("texas" :> "TX")

\* pd.isna(csv_value) or not str(csv_value).strip()
IsBlank(csv_value) == csv_value = NaN \/ strip(csv_value) = ""

Min(a, b) == IF a < b THEN a ELSE b

Max(a, b) == IF a > b THEN a ELSE b

\* the post-processing of the answer
PostProcess(field_id, content) ==
    LET suggested_value == strip(content)
        clamped == IF (Contains("employee", lower(field_id)) \/ Contains("staff", lower(field_id)))
                      /\ FirstNumber(suggested_value) >= 0
                   THEN StrOfInt(Min(Max(FirstNumber(suggested_value), 1), 30))
                   ELSE suggested_value
    IN IF lower(suggested_value) \in {"empty string", "empty", "blank", "none", "null",
                                      "n/a", "not available"}
       THEN ""
       ELSE StripQuotes(clamped)

\* the returned value (PyNone for None) and whether the provider was called;
\* llm_config is what load_llm_config returns and answer what the provider does
infer_field_value_with_llm(field_context, csv_row_data, llm_config, answer) ==
    IF ~llm_config.enabled \/ llm_config.api_key = ""
    THEN [value |-> PyNone, consulted |-> FALSE]
    ELSE IF field_context.id = PyNone
    THEN [value |-> PyNone, consulted |-> FALSE]   \* None.lower() raises, caught
    ELSE LET field_id == IF field_context.id = NoKey THEN "unknown" ELSE field_context.id
             csv_value == IF field_id \in DOMAIN csv_row_data THEN csv_row_data[field_id] ELSE ""
         IN IF IsBlank(csv_value)
               /\ (\/ Contains("employee", lower(field_id))
                   \/ Contains("staff", lower(field_id))
                   \/ Contains("workforce", lower(field_id)))
            THEN [value |-> "1", consulted |-> FALSE]
            ELSE IF answer = "<raise>"
            THEN [value |-> PyNone, consulted |-> TRUE]
            ELSE [value |-> PostProcess(field_id, answer), consulted |-> TRUE]

InferOrRecordedRaising(action, csv_row_data, llm_config, answer) ==
    LET llm == infer_field_value_with_llm(action.field_context, csv_row_data, llm_config, answer)
    IN [raised |-> llm.value = PyNone, value |-> IF llm.value = PyNone THEN "" ELSE llm.value,
        branch |-> "llm", consulted |-> llm.consulted]

\* if llm_value: ... else: str(action.get('value', ''))
InferOrRecorded(action, csv_row_data, llm_config, answer) ==
    LET llm == infer_field_value_with_llm(action.field_context, csv_row_data, llm_config, answer)
    IN IF llm.value \notin {PyNone, ""}
       THEN [raised |-> FALSE, value |-> llm.value, branch |-> "llm", consulted |-> llm.consulted]
       ELSE [raised |-> FALSE, value |-> action.value, branch |-> "fallback",
             consulted |-> llm.consulted]

\* the branch `elif csv_col and csv_col in row` of replay_workflow_single_row
Mapped(action, csv_col, row) ==
    LET raw_value == row[csv_col]
    IN IF raw_value = NaN
       THEN [raised |-> FALSE, value |-> "", branch |-> "csv", consulted |-> FALSE]
       ELSE IF action.field_context.id = PyNone
       THEN [raised |-> TRUE, value |-> "", branch |-> "csv", consulted |-> FALSE]
       ELSE LET field_id == IF action.field_context.id = NoKey THEN ""
                            ELSE lower(action.field_context.id)
                key == strip(lower(raw_value))
            IN [raised |-> FALSE,
                value |-> IF (Contains("state", field_id) \/ Contains("state", lower(csv_col)))
                             /\ key \in DOMAIN STATE_MAPPING
                          THEN STATE_MAPPING[key] ELSE raw_value,
                branch |-> "csv", consulted |-> FALSE]

RecordedAsInferred(action) ==
    [raised |-> FALSE, value |-> "", branch |-> "recorded", consulted |-> TRUE]

\* the branch `if csv_col == '__RECORDED__'`
Recorded(action) ==
    [raised |-> FALSE, value |-> action.value, branch |-> "recorded", consulted |-> FALSE]

\* the value of an input or select step of replay_workflow_single_row
ResolveValue(action, csv_col, row, llm_config, answer) ==
    IF csv_col = "__RECORDED__" THEN Recorded(action)
    ELSE IF csv_col # PyNone /\ csv_col \in DOMAIN row THEN Mapped(action, csv_col, row)
    ELSE InferOrRecorded(action, row, llm_config, answer)

\* get_value_and_source of the verification dialog on its test row, with the
\* inference computed (GetValueAndSource takes its answer as given)
get_value_and_source(action, csv_col, test_row, llm_config, answer) ==
    IF csv_col = "__RECORDED__" THEN Recorded(action)
    ELSE IF csv_col # PyNone /\ csv_col \in DOMAIN test_row
    THEN [raised |-> FALSE, value |-> IF test_row[csv_col] = NaN THEN "" ELSE test_row[csv_col],
          branch |-> "csv", consulted |-> FALSE]
    ELSE IF llm_config.enabled
    THEN InferOrRecorded(action, test_row, llm_config, answer)
    ELSE [raised |-> FALSE, value |-> action.value, branch |-> "fallback", consulted |-> FALSE]

NoResult == [raised |-> FALSE, value |-> "", branch |-> "none", consulted |-> FALSE]

NoResolution ==
    [pc |-> "idle", action |-> FieldAction("input", NoKey), csv_col |-> PyNone,
     row |-> [c \in RowColumns |-> NaN], llm_config |-> [enabled |-> FALSE, api_key |-> ""],
     answer |-> "", result |-> NoResult]

\* the replay reaches the input or select step
ReplayResolve ==
    /\ resolution.pc = "ready"
    /\ resolution' = [resolution EXCEPT
           !.pc = "replayed",
           !.result = ResolveValue(resolution.action, resolution.csv_col, resolution.row,
                                   resolution.llm_config, resolution.answer)]
    /\ UNCHANGED <<workflowFile, replayVars, verifyVars, editor, actions_log, recorder>>

\* the verification dialog shows the step
PreviewResolve ==
    /\ resolution.pc = "ready"
    /\ resolution' = [resolution EXCEPT
           !.pc = "previewed",
           !.result = get_value_and_source(resolution.action, resolution.csv_col,
                                           resolution.row, resolution.llm_config,
                                           resolution.answer)]
    /\ UNCHANGED <<workflowFile, replayVars, verifyVars, editor, actions_log, recorder>>

(***************************************************************************)
(* Specifications.                                                         *)
(***************************************************************************)
InitWorkflowFile(actions, ls, complete) ==
    [actions |-> actions, loop_start_step |-> ls, verification_complete |-> complete,
     csv_mapping |-> VerifyMapping,
     deleted_steps |-> <<>>, deleted_steps_archive |-> <<>>]

InitReplay ==
    /\ \E wf \in Workflows : \E ls \in 0 .. Len(wf) :
          workflowFile = InitWorkflowFile(wf, ls, FALSE)
    /\ statusFile = EmptyStatus
    /\ workers = [w \in Workers |-> IdleWorker]
    /\ full = IdleFull
    /\ partialFile = AbsentFile
    /\ dlg = ClosedDialog
    /\ lastOp = NoOp
    /\ editor = ClosedEditor
    /\ actions_log = <<>>
    /\ recorder = IdleRecorder
    /\ resolution = NoResolution

Init == InitReplay

\* partial runs, the operator starting a run only after the previous one ended
Next ==
    \/ \E w \in Workers : \E n \in RowCounts :
          /\ \A v \in Workers : ~Active(workers[v])
          /\ RunPartialWorkflow(w, n)
    \/ \E w \in Workers : \E o \in {"ok", "driver_fail", "nav_fail"} : WorkerStart(w, o)
    \/ \E w \in Workers : \E out \in PendingOutcomes(workers[w]) : ReplayRow(w, out)
    \/ \E w \in Workers : MarkCompleted(w)
    \/ \E w \in Workers : ThreadExit(w)
    \/ \E r \in BOOLEAN : ClearStatus(r)

Spec == Init /\ [][Next]_vars

\* partial runs started at any time: "Run Partial" is not disabled while a
\* worker thread is running
NextConcurrent ==
    \/ \E w \in Workers : \E n \in RowCounts : RunPartialWorkflow(w, n)
    \/ \E w \in Workers : \E o \in {"ok", "driver_fail", "nav_fail"} : WorkerStart(w, o)
    \/ \E w \in Workers : \E out \in PendingOutcomes(workers[w]) : ReplayRow(w, out)
    \/ \E w \in Workers : MarkCompleted(w)
    \/ \E w \in Workers : ThreadExit(w)
    \/ \E r \in BOOLEAN : ClearStatus(r)

SpecConcurrent == Init /\ [][NextConcurrent]_vars

\* the full browser run
NextFull ==
    \/ \E b \in BOOLEAN : \E o \in {"ok", "driver_fail", "nav_fail"} : RunWorkflowBrowser(b, o)
    \/ \E r \in Resp : FullExec(r)
    \/ FullNextRow

SpecFull == Init /\ [][NextFull]_vars

\* verification: on_verify_workflow has loaded the workflow file, built the
\* dialog and start_verification has shown the first step
VerifyWorkflows == {WorkflowA}

\* loop_start_step of the workflow file the dialog is opened on
LoopStarts == {0, 2}

\* the partial file an earlier, cancelled session has left behind: on_close
\* does not remove it
LeftoverPartial ==
    [exists |-> TRUE, actions |-> <<WorkflowA[1]>>, deleted_steps |-> <<>>,
     verification_complete |-> FALSE]

InitVerify ==
    /\ \E wf \in VerifyWorkflows : \E ls \in LoopStarts :
          /\ workflowFile = InitWorkflowFile(wf, ls, FALSE)
          /\ dlg = ShowStep([dlg |-> [ClosedDialog EXCEPT !.open = TRUE, !.actions = wf],
                             wf |-> workflowFile, pf |-> AbsentFile], FALSE).dlg
    /\ partialFile \in {AbsentFile, LeftoverPartial}
    /\ lastOp = NoOp
    /\ statusFile = EmptyStatus
    /\ workers = [w \in Workers |-> IdleWorker]
    /\ full = IdleFull
    /\ editor = ClosedEditor
    /\ actions_log = <<>>
    /\ recorder = IdleRecorder
    /\ resolution = NoResolution

NextVerify ==
    \/ \E o \in {"ok", "fail"} : \E r \in {"yes", "no", "cancel"} : \E p \in BOOLEAN :
          Approve(o, r, p)
    \/ \E p \in BOOLEAN : Skip(p)
    \/ \E p \in BOOLEAN : Previous(p)
    \/ \E r \in BOOLEAN : \E p \in BOOLEAN : Delete(r, p)
    \/ \E t \in InsertTypes : \E p \in BOOLEAN : Insert(t, p)
    \/ \E p \in BOOLEAN : AddKeyboard(p)
    \/ \E idx \in 0 .. 4 : \E p \in BOOLEAN : Restore(idx, p)
    \/ Cancel
    \/ \E n \in {"", "named"} : \E v \in {"", "ov"} : EditEntries(n, v)

SpecVerify == InitVerify /\ [][NextVerify]_vars

\* editing: sessions of the workflow editor on the workflow file
InitEdit ==
    /\ \E wf \in Workflows : \E ls \in 0 .. Len(wf) :
          workflowFile = InitWorkflowFile(wf, ls, FALSE)
    \* actions_log as a recording has left it or as load_prefs restores it
    /\ actions_log \in {<<>>} \cup Workflows
    /\ statusFile = EmptyStatus
    /\ workers = [w \in Workers |-> IdleWorker]
    /\ full = IdleFull
    /\ partialFile = AbsentFile
    /\ dlg = ClosedDialog
    /\ lastOp = NoOp
    /\ editor = ClosedEditor
    /\ recorder = IdleRecorder
    /\ resolution = NoResolution

NextEdit ==
    \/ OnEditWorkflow
    \/ \E step_idx \in 0 .. 4 : EditorDeleteStep(step_idx)
    \/ \E step_idx \in 0 .. 4 : SelectLoopStart(step_idx)
    \/ \E sel \in Selectors : \E c \in {"(skip)", "(use recorded value)", "Company"} :
          SelectMapping(sel, c)
    \/ SaveChanges
    \/ EditorCancel
    \/ \E m \in MappingChoices : OnMapCsv(m)

SpecEdit == InitEdit /\ [][NextEdit]_vars

\* recording: no workflow file has been written yet
InitRecord ==
    /\ workflowFile = InitWorkflowFile(<<>>, 0, FALSE)
    /\ statusFile = EmptyStatus
    /\ workers = [w \in Workers |-> IdleWorker]
    /\ full = IdleFull
    /\ partialFile = AbsentFile
    /\ dlg = ClosedDialog
    /\ lastOp = NoOp
    /\ editor = ClosedEditor
    /\ actions_log = <<>>
    /\ recorder = IdleRecorder
    /\ resolution = NoResolution

NextRecord ==
    \/ \E o \in {"ok", "driver_fail"} : DetectFields(o)
    \/ \E u \in Urls : RecordNavigate(u)
    \/ \E ev \in Events : RecordEvent(ev)
    \/ BrowserClosed

SpecRecord == InitRecord /\ [][NextRecord]_vars

\* value resolution: one field step, one mapping entry, one row, one
\* configuration and one behaviour of the provider
InitResolve ==
    /\ workflowFile = InitWorkflowFile(<<>>, 0, FALSE)
    /\ statusFile = EmptyStatus
    /\ workers = [w \in Workers |-> IdleWorker]
    /\ full = IdleFull
    /\ partialFile = AbsentFile
    /\ dlg = ClosedDialog
    /\ lastOp = NoOp
    /\ editor = ClosedEditor
    /\ actions_log = <<>>
    /\ recorder = IdleRecorder
    /\ \E kind \in {"input", "select"} : \E id \in FieldIds : \E csv_col \in MappingEntries :
       \E row \in [RowColumns -> Cells] : \E llm_config \in LlmConfigs : \E answer \in Answers :
          resolution = [pc |-> "ready", action |-> FieldAction(kind, id), csv_col |-> csv_col,
                        row |-> row, llm_config |-> llm_config, answer |-> answer,
                        result |-> NoResult]

NextResolve ==
    \/ ReplayResolve
    \/ PreviewResolve

SpecResolve == InitResolve /\ [][NextResolve]_vars

(***************************************************************************)
(* Claims.                                                                 *)
(***************************************************************************)
Ids(seq) == [k \in 1 .. Len(seq) |-> seq[k].id]

\* the sub-list the claim selects for the i-th row of a session
ClaimedSlice(actions, loop_start, i) ==
    IF i = 1 \/ loop_start = 0 THEN actions
    ELSE SubSeq(actions, loop_start + 1, Len(actions))

\* C1: in a partial run, the actions performed for the i-th row of a session
\* are, in order, those of the whole actions list of the workflow when i = 1
\* or loop_start_step = 0, and those of actions[loop_start_step:] otherwise
\* (steps without a selector being passed over in either case).
C1_LoopSlicing ==
    \A w \in Workers :
        workers[w].pc = "mark" =>
            Ids(workers[w].trace) =
                Ids(ValidActions(ClaimedSlice(workflowFile.actions,
                                              workflowFile.loop_start_step,
                                              workers[w].i)))

\* C2: after the first failed row of a sequential replay no action of a later
\* row is executed against the browser.
C2_FailFast ==
    [][(full.firstFailed >= 0 /\ full'.row > full.firstFailed)
          => full'.nexec = full.nexec]_vars

\* C3: a row in which an action or a sub-step of an interactive sequence
\* failed with an error other than a stale element is not carried on to its
\* end and marked completed.
C3_ErrorAbortsRow ==
    \A w \in Workers : workers[w].pc = "mark" => ~workers[w].swallowed

C5_StaleRetriedOnce ==
    \A w \in Workers :
        \A k \in 1 .. Len(workers[w].trace) :
            LET e == workers[w].trace[k]
            IN (e.kind \in {"click", "input", "select"} /\ e.first = "stale")
                   => e.retries = 1

\* C6: at most one partial-run worker is active at any time.
C6_OneActiveSession ==
    \A v \in Workers : \A w \in Workers :
        (v # w) => ~(Active(workers[v]) /\ Active(workers[w]))

\* C7: once verification has completed and the dialog has closed, the
\* workflow file has verification_complete = true and its actions are the
\* verified list.
C7_CompleteIsPersisted ==
    (~dlg.open /\ dlg.approved) =>
        /\ workflowFile.verification_complete
        /\ workflowFile.actions = dlg.verified_actions

\* C8: with the list [A,B,C,D,E] and the cursor at index 2, Delete followed
\* immediately by Restore gives the list [A,B,C,D,E] again, the element put
\* back being the action C, and leaves deleted_steps without C.
C8_DeleteRestoreRoundTrip ==
    [][(/\ lastOp.op = "delete"
        /\ lastOp'.op = "restore"
        /\ dlg.current_step = 2
        /\ Ids(dlg.actions) = <<"A", "B", "D", "E">>
        /\ Len(dlg.deleted_steps) = 1
        /\ dlg.deleted_steps[1].step.id = "C")
          => /\ dlg'.actions = InsertAt(dlg.actions, 2, dlg.deleted_steps[1].step)
             /\ Ids(dlg'.actions) = <<"A", "B", "C", "D", "E">>
             /\ dlg'.deleted_steps = <<>>]_vars

C11_Previous ==
    [][(dlg.open /\ lastOp'.op = "previous") =>
        LET n == Len(dlg.verified_actions)
        IN IF dlg.current_step > 0
           THEN /\ dlg'.verified_actions =
                       IF n > 0 THEN SubSeq(dlg.verified_actions, 1, n - 1) ELSE <<>>
                /\ dlg'.current_step = dlg.current_step - 1
                /\ dlg'.open
           ELSE /\ dlg'.verified_actions = dlg.verified_actions
                /\ dlg'.current_step = 0
                /\ dlg'.open]_vars

C11_Witness ==
    /\ lastOp.op = "previous"
    /\ dlg.open
    /\ dlg.current_step = 1
    /\ Ids(dlg.verified_actions) = <<"A">>
    /\ Ids(partialFile.actions) = <<"A">>

\* C12: a confirmed Delete on step i removes exactly actions[i] from the
\* working list, appends it with its position to deleted_steps and leaves
\* verified_actions unchanged; when actions[i] was not the last action the
\* cursor stays at i, on the former actions[i+1]; when it was the last one
\* the verification completes.
C12_Delete ==
    [][(dlg.open /\ lastOp'.op = "delete") =>
        LET i == dlg.current_step
            n == Len(dlg.actions)
            entry == [step |-> dlg.actions[i + 1], position |-> i]
        IN /\ dlg'.actions = SubSeq(dlg.actions, 1, i) \o SubSeq(dlg.actions, i + 2, n)
           /\ dlg'.verified_actions = dlg.verified_actions
           /\ dlg'.current_step = i
           /\ IF i + 1 < n
              THEN /\ dlg'.open
                   /\ ~dlg'.approved
                   /\ dlg'.actions[i + 1] = dlg.actions[i + 2]
                   /\ dlg'.deleted_steps = Append(dlg.deleted_steps, entry)
              ELSE /\ ~dlg'.open
                   /\ dlg'.approved
                   /\ dlg'.deleted_steps \in {<<>>, Append(dlg.deleted_steps, entry)}]_vars

C12_Witness ==
    /\ lastOp.op = "delete"
    /\ dlg.open
    /\ dlg.current_step = 2
    /\ Ids(dlg.actions) = <<"A", "B", "D", "E">>
    /\ Len(dlg.deleted_steps) = 1
    /\ dlg.deleted_steps[1].step.id = "C"
    /\ dlg.deleted_steps[1].position = 2
    /\ Len(dlg.verified_actions) = 2

\* C13: Insert Step After and Add Keyboard Action on step i put the new
\* action at index i + 1 of the working list and move the cursor onto it;
\* the other actions keep their order and verified_actions is unchanged.
C13_InsertAfter ==
    [][(dlg.open /\ lastOp'.op = "insert") =>
        LET i == dlg.current_step
            n == Len(dlg.actions)
        IN /\ Len(dlg'.actions) = n + 1
           /\ SubSeq(dlg'.actions, 1, i + 1) = SubSeq(dlg.actions, 1, i + 1)
           /\ SubSeq(dlg'.actions, i + 3, n + 1) = SubSeq(dlg.actions, i + 2, n)
           /\ \A k \in 1 .. n : dlg.actions[k].id # dlg'.actions[i + 2].id
           /\ dlg'.current_step = i + 1
           /\ dlg'.open
           /\ dlg'.step_name_var = dlg'.actions[i + 2].step_name
           /\ dlg'.verified_actions = dlg.verified_actions]_vars

C13_Witness ==
    /\ lastOp.op = "insert"
    /\ dlg.open
    /\ dlg.current_step = 2
    /\ Ids(dlg.actions) = <<"A", "B", "X1", "C", "D", "E">>
    /\ dlg.actions[3].action = "interactive_sequence"
    /\ Len(dlg.verified_actions) = 1

\* C14 (as claimed): when the execution fails during Approve & Next the
\* action is not appended, and each recovery (Yes: cursor + 1; No: as
\* Previous; Cancel: nothing changes) leaves the dialog open on a step,
\* neither approved nor marked complete.
C14_RecoveriesStayPresenting ==
    [][(dlg.open /\ lastOp'.op = "approve" /\ ~lastOp'.ok) =>
        /\ dlg'.open
        /\ ~dlg'.approved
        /\ ~workflowFile'.verification_complete]_vars

\* C14 (amended): when the execution fails during Approve & Next the action
\* is not appended; Yes moves the cursor to i + 1 and, exactly when the
\* failed step was the last one, completes the verification as Skip does;
\* No acts as Previous; Cancel changes neither the cursor nor
\* verified_actions; No and Cancel leave the dialog open and not approved.
C14_Recoveries ==
    [][(dlg.open /\ lastOp'.op = "approve" /\ ~lastOp'.ok) =>
        LET i == dlg.current_step
            n == Len(dlg.verified_actions)
        IN CASE lastOp'.recovery = "yes" ->
                  /\ dlg'.verified_actions = dlg.verified_actions
                  /\ dlg'.current_step = i + 1
                  /\ dlg'.open <=> i + 1 < Len(dlg.actions)
                  /\ dlg'.approved <=> ~dlg'.open
             [] lastOp'.recovery = "no" ->
                  /\ dlg'.verified_actions =
                        IF i > 0 /\ n > 0 THEN SubSeq(dlg.verified_actions, 1, n - 1)
                        ELSE dlg.verified_actions
                  /\ dlg'.current_step = IF i > 0 THEN i - 1 ELSE 0
                  /\ dlg'.open /\ ~dlg'.approved
                  /\ workflowFile' = workflowFile
             [] OTHER ->
                  /\ dlg'.verified_actions = dlg.verified_actions
                  /\ dlg'.current_step = i
                  /\ dlg'.open /\ ~dlg'.approved
                  /\ workflowFile' = workflowFile]_vars

C14_Witness ==
    /\ lastOp.op = "approve"
    /\ ~lastOp.ok
    /\ lastOp.recovery = "yes"
    /\ lastOp.executed[1].id = "E"
    /\ ~dlg.open
    /\ dlg.approved
    /\ Ids(dlg.verified_actions) = <<"A", "B", "C", "D">>

\* C15: after every transition of the verification (Approve & Next, Skip,
\* Previous, Delete, Restore, an insertion, an error recovery) that leaves
\* the dialog on a step, the progress on disk holds the verified_actions and
\* the deleted_steps of the dialog.
C15_ProgressPersisted ==
    (dlg.open /\ lastOp.op \in {"approve", "skip", "previous", "delete", "restore", "insert"})
        => /\ partialFile.actions = dlg.verified_actions
           /\ partialFile.deleted_steps = dlg.deleted_steps

\* xs is ys with some elements left out
RECURSIVE IsSubsequence(_, _)
IsSubsequence(xs, ys) ==
    IF xs = <<>> THEN TRUE
    ELSE IF ys = <<>> THEN FALSE
    ELSE IF Head(xs) = Head(ys) THEN IsSubsequence(Tail(xs), Tail(ys))
    ELSE IsSubsequence(xs, Tail(ys))

C18_LoopStartInRange ==
    /\ 0 <= workflowFile.loop_start_step
    /\ workflowFile.loop_start_step <= Len(workflowFile.actions)

\* C19: deduplication is idempotent: for every stream x the recording loop
\* can build, and for every stream it has left in actions_log,
\* deduplicate_actions(deduplicate_actions(x)) = deduplicate_actions(x); the
\* log a finished recording leaves is a fixed point.
C19_DedupIdempotent ==
    /\ deduplicate_actions(deduplicate_actions(actions_log)) = deduplicate_actions(actions_log)
    /\ deduplicate_actions(deduplicate_actions(recorder.raw)) = deduplicate_actions(recorder.raw)
    /\ recorder.state = "finished" => deduplicate_actions(actions_log) = actions_log

\* a finished recording whose deduplication dropped an overwritten value and
\* put two fields typed in the other order before a click
C19_Witness ==
    /\ recorder.state = "finished"
    /\ Len(recorder.raw) = MaxStream
    /\ Len(actions_log) >= 2
    /\ actions_log # recorder.raw
    /\ \E i \in 1 .. Len(actions_log) : actions_log[i].action = "click"
    /\ \E i \in 1 .. Len(actions_log) : actions_log[i].action \in {"input", "select"}

IsBoundary(act) == act.action \in {"click", "navigate"}

\* C20: deduplication never alters boundaries: the Click and Navigate
\* actions of the recorded stream are those of the deduplicated log, in the
\* same order.
C20_BoundariesKept ==
    [][recorder.state = "recording" /\ recorder'.state = "finished"
          => SelectSeq(actions_log', IsBoundary) = SelectSeq(actions_log, IsBoundary)]_vars

IsWrite(act) == act.action \in {"input", "select"}

Locator(act) == <<act.by, act.selector>>

\* the segment of position i of a stream: the number of clicks before it
SegmentOf(stream, i) ==
    Cardinality({j \in 1 .. i - 1 : stream[j].action = "click"})

\* the positions of the writes to locator k in segment g of a stream
WritesAt(stream, g, k) ==
    {i \in 1 .. Len(stream) :
        IsWrite(stream[i]) /\ Locator(stream[i]) = k /\ SegmentOf(stream, i) = g}

LastOf(positions) == CHOOSE i \in positions : \A j \in positions : j <= i

\* C21: for every segment of the recorded stream between two clicks and
\* every locator written in it, the deduplicated log holds exactly one write
\* for that locator in the corresponding segment, carrying the last value
\* written in the segment, also when an identical write was emitted in an
\* earlier segment.
C21_LastWritePerSegment ==
    recorder.state = "finished" =>
        \A i \in 1 .. Len(recorder.raw) :
            IsWrite(recorder.raw[i]) =>
                LET g == SegmentOf(recorder.raw, i)
                    k == Locator(recorder.raw[i])
                    kept == WritesAt(actions_log, g, k)
                IN /\ Cardinality(kept) = 1
                   /\ \A j \in kept :
                         actions_log[j].value =
                             recorder.raw[LastOf(WritesAt(recorder.raw, g, k))].value

\* the positions of the writes pending at position i of a stream: those
\* after the last click or navigate before i
PendingAt(stream, i) ==
    {j \in 1 .. i - 1 :
        /\ IsWrite(stream[j])
        /\ \A b \in j + 1 .. i - 1 : ~IsBoundary(stream[b])}

\* C22: a Navigate is a flush boundary like a Click: the writes pending when
\* a Navigate is met are emitted before it and the pending map is cleared,
\* so a locator written before and after a Navigate keeps one write on each
\* side of it.
C22_NavigateFlushes ==
    recorder.state = "finished" =>
        \A i \in 1 .. Len(recorder.raw) :
            recorder.raw[i].action = "navigate" =>
                \E n \in 1 .. Len(actions_log) :
                    /\ actions_log[n] = recorder.raw[i]
                    /\ \A j \in PendingAt(recorder.raw, i) :
                          \E m \in 1 .. n - 1 :
                              /\ IsWrite(actions_log[m])
                              /\ Locator(actions_log[m]) = Locator(recorder.raw[j])
                    /\ \A j \in i + 1 .. Len(recorder.raw) :
                          IsWrite(recorder.raw[j]) =>
                              \E m \in n + 1 .. Len(actions_log) :
                                  /\ IsWrite(actions_log[m])
                                  /\ Locator(actions_log[m]) = Locator(recorder.raw[j])

Resolved == resolution.pc \in {"replayed", "previewed"}

\* the field identifier matches employee|staff|workforce, in any letter case
EmployeeLike(id) ==
    /\ id \notin {PyNone, NoKey}
    /\ \/ Contains("employee", lower(id))
       \/ Contains("staff", lower(id))
       \/ Contains("workforce", lower(id))

\* the mapping entry names a column of the row
MappedToColumn == resolution.csv_col \in DOMAIN resolution.row

\* C23: with the recorded-literal sentinel as mapping entry, the replay and
\* the verification preview resolve the step to its recorded value, for every
\* row and every behaviour of the provider, and the provider is not consulted.
C23_RecordedLiteralWins ==
    Resolved /\ resolution.csv_col = "__RECORDED__" =>
        /\ ~resolution.result.raised
        /\ resolution.result.value = resolution.action.value
        /\ ~resolution.result.consulted

\* the sentinel on an employee field with a blank cell and a working provider
C23_Witness ==
    /\ resolution.pc = "replayed"
    /\ resolution.csv_col = "__RECORDED__"
    /\ resolution.action.field_context.id = "employees"
    /\ resolution.row["employees"] = NaN
    /\ resolution.llm_config = [enabled |-> TRUE, api_key |-> "sk"]
    /\ resolution.answer = "CO"
    /\ resolution.result.value = "rec"

\* C24: with no mapping entry, a blank or missing CSV value for the field and
\* an employee-like field id, the replay resolves the step to "1" for every
\* inference configuration and every behaviour of the provider.
C24_BlankEmployeeIsOne ==
    /\ resolution.pc = "replayed"
    /\ resolution.csv_col = PyNone
    /\ EmployeeLike(resolution.action.field_context.id)
    /\ resolution.action.field_context.id \in DOMAIN resolution.row
          => IsBlank(resolution.row[resolution.action.field_context.id])
    => resolution.result.value = "1"

\* C25: mapped to a column whose cell is blank or missing, with an
\* employee-like field id, the replay resolves the step to "1".
C25_MappedBlankEmployeeIsOne ==
    /\ resolution.pc = "replayed"
    /\ MappedToColumn
    /\ IsBlank(resolution.row[resolution.csv_col])
    /\ EmployeeLike(resolution.action.field_context.id)
    => resolution.result.value = "1"

\* the field id or the column name contains "state"
StateField ==
    \/ /\ resolution.action.field_context.id \notin {PyNone, NoKey}
       /\ Contains("state", lower(resolution.action.field_context.id))
    \/ Contains("state", lower(resolution.csv_col))

\* C26: mapped to a column with a non-blank cell, the replay resolves every
\* step, also one whose field context has no id: to the 2-letter abbreviation
\* when the field id or the column name contains "state" and the trimmed,
\* lower-cased cell is a state name, to the cell unchanged otherwise.
C26_MappedNonBlank ==
    /\ resolution.pc = "replayed"
    /\ MappedToColumn
    /\ ~IsBlank(resolution.row[resolution.csv_col])
    => /\ ~resolution.result.raised
       /\ resolution.result.value =
             IF StateField /\ resolution.row[resolution.csv_col] = "  Colorado " THEN "CO"
             ELSE IF StateField /\ resolution.row[resolution.csv_col] = "California" THEN "CA"
             ELSE IF StateField /\ resolution.row[resolution.csv_col] = "Texas" THEN "TX"
             ELSE resolution.row[resolution.csv_col]

\* C27: with no mapping entry and inference enabled, when the answer of the
\* provider, its surrounding quotes stripped, is one of empty, blank, none,
\* null, n/a, not available in any letter case, the replay resolves the step
\* to the empty string taken from the inference.
C27_PlaceholderIsEmpty ==
    /\ resolution.pc = "replayed"
    /\ resolution.csv_col = PyNone
    /\ resolution.result.consulted
    /\ resolution.answer \in {"None", "\"null\""}
    => /\ resolution.result.value = ""
       /\ resolution.result.branch = "llm"

\* C28: when inference is disabled, has no key, or the call of the provider
\* raises, resolving an unmapped step does not raise and yields the recorded
\* value of the step.
C28_InferenceUnavailable ==
    /\ Resolved
    /\ resolution.csv_col = PyNone
    /\ \/ ~resolution.llm_config.enabled
       \/ resolution.llm_config.api_key = ""
       \/ resolution.result.consulted /\ resolution.answer = "<raise>"
    => /\ ~resolution.result.raised
       /\ resolution.result.value = resolution.action.value

\* the provider was called and raised
C28_Witness ==
    /\ resolution.pc = "replayed"
    /\ resolution.csv_col = PyNone
    /\ resolution.llm_config = [enabled |-> TRUE, api_key |-> "sk"]
    /\ resolution.answer = "<raise>"
    /\ resolution.result.consulted
    /\ resolution.result.value = "rec"

\* C29: the processing status is append-only: an entry recorded for a row
\* index is not removed or overwritten by any later step of a run, a later
\* run, a retry of a failed row or the status dialog.
C29_StatusAppendOnly ==
    [][\A idx \in RowIdx :
          statusFile[idx] # NoEntry => statusFile'[idx] = statusFile[idx]]_vars

\* C30: no step of a partial run changes the actions stored in the workflow
\* file; dropping the invalid steps affects only the copy of the thread.
C30_ReplayKeepsActions ==
    [][workflowFile' = workflowFile]_vars

\* a run whose copy lost the step without selector has completed a row and
\* written the processing status
C30_Witness ==
    \E w \in Workers :
        /\ workers[w].pc = "row"
        /\ workers[w].i = 2
        /\ Len(workers[w].actions) < Len(workflowFile.actions)
        /\ workflowFile.actions = WorkflowC
        /\ statusFile[workers[w].rows[1]] = CompletedEntry

\* C31: in the full browser run every Navigate action of the list reaches
\* the browser at its position: the step over a Navigate action is a
\* browser navigation, never a skip.
C31_NavigateExecuted ==
    [][(/\ full.pc = "run"
        /\ full'.pc = "run"
        /\ full'.step = full.step + 1
        /\ full.actions[full.step + 1].action = "navigate")
          => full'.nexec = full.nexec + 1]_vars

\* C32: when the browser cannot be started or the initial URL cannot be
\* reached, the run aborts: the thread ends without having replayed a row,
\* the step writes no processing-status entry, and the ended thread replays
\* nothing afterwards.
C32_SessionFailureAborts ==
    [][\A w \in Workers :
          /\ (workers[w].pc = "start" /\ workers'[w].pc # "row")
                => /\ workers'[w] \in
                          {workers[w], Ended("aborted", "open"), Ended("aborted", "none")}
                            \cup (IF workers[w].rows = <<>> THEN {Ended("ok", "quit")}
                                  ELSE {})
                   /\ workers'[w].pc = "done" => statusFile' = statusFile
          /\ workers[w].ended = "aborted" => workers'[w] = workers[w]]_vars

\* a run that could not reach the initial URL has ended, the browser is
\* still open and the row it was to replay has no entry
C32_Witness ==
    \E w \in Workers :
        /\ workers[w].pc = "done"
        /\ workers[w].ended = "aborted"
        /\ workers[w].driver = "open"
        /\ statusFile = EmptyStatus

\* C33: Previous and the go-back recovery remove a verified entry only when
\* it is the action at the position the cursor moves to; after Approve(A),
\* Skip(B), Previous the entry of A is still in verified_actions.
C33_PreviousRemovesOnlyTarget ==
    [][(/\ dlg.open
        /\ \/ lastOp'.op = "previous"
           \/ lastOp'.op = "approve" /\ lastOp'.recovery = "no"
        /\ dlg'.verified_actions # dlg.verified_actions)
          => /\ dlg.current_step > 0
             /\ dlg.verified_actions[Len(dlg.verified_actions)].id
                    = dlg.actions[dlg.current_step].id]_vars

ShownOverride == ShowStep(Cur, FALSE).dlg.override_var

\* C35: approving an input or select step whose override entry still holds
\* what show_step put there leaves the recorded value of the action as it
\* was, in the working list and in the executed and recorded copy.
C35_ApproveKeepsRecorded ==
    [][(/\ dlg.open
        /\ lastOp'.op = "approve"
        /\ dlg.current_step < Len(dlg.actions)
        /\ dlg.actions[dlg.current_step + 1].action \in {"input", "select"}
        /\ dlg.override_var = ShownOverride)
          => LET i == dlg.current_step + 1
             IN /\ lastOp'.executed[1].value = dlg.actions[i].value
                /\ dlg'.actions[i].value = dlg.actions[i].value]_vars

\* C38: Save Changes writes the edited mapping, the actions without the
\* marked steps and the chosen loop start to the workflow file; Cancel
\* leaves the file unchanged.
C38_SaveChangesWritesFile ==
    [][(editor.open /\ ~editor'.open)
          => workflowFile' = IF editor'.saved THEN SaveChangesResult(editor)
                             ELSE workflowFile]_vars

\* C39: saving a CSV mapping for a site that has a workflow file changes
\* only csv_mapping in that file; actions and verification_complete stay.
C39_MapCsvChangesOnlyMapping ==
    [][(~editor.open /\ editor' = editor /\ workflowFile' # workflowFile)
          => workflowFile' = [workflowFile EXCEPT
                                 !.csv_mapping = workflowFile'.csv_mapping]]_vars

\* C36: for the same action, mapping entry, row and inference answer the
\* value get_value_and_source shows equals the value the replay enters into
\* the field.
C36_PreviewEqualsReplay ==
    resolution.pc # "idle"
      => LET replayed == ResolveValue(resolution.action, resolution.csv_col, resolution.row,
                                      resolution.llm_config, resolution.answer)
             shown == get_value_and_source(resolution.action, resolution.csv_col,
                                           resolution.row, resolution.llm_config,
                                           resolution.answer)
         IN /\ ~replayed.raised
            /\ ~shown.raised
            /\ replayed.value = shown.value

\* the rows a starting run hands to its thread are pending rows in ascending
\* order, the first ones of the pending rows, and at most row_count many
SelectsPending(wk, status) ==
    /\ Len(wk.rows) <= wk.row_count
    /\ \A k \in 1 .. Len(wk.rows) - 1 : wk.rows[k] < wk.rows[k + 1]
    /\ \A k \in 1 .. Len(wk.rows) : status[wk.rows[k]].status # "completed"
    /\ \A idx \in RowIdx :
          (/\ status[idx].status # "completed"
           /\ \/ Len(wk.rows) < wk.row_count
              \/ \E k \in 1 .. Len(wk.rows) : idx < wk.rows[k])
            => idx \in Range(wk.rows)

\* C37: in runs that do not overlap, a row with status 'completed' in the
\* status file is not replayed; each run takes at most row_count rows, in
\* ascending CSV index, from the rows that are not completed, failed rows
\* included.
C37_RunsSelectPending ==
    [][\A w \in Workers :
          /\ (workers[w].pc = "idle" /\ workers'[w].pc = "start")
                => SelectsPending(workers'[w], statusFile)
          /\ (workers[w].pc = "row" /\ workers'[w].pc \in {"mark", "failed"})
                => statusFile[CurrentRow(workers[w])].status # "completed"]_vars

====
